---- MODULE Spec2Model ----
(***************************************************************************)
(* django-tomselect: the widget configuration layer of                     *)
(* src/django_tomselect/app_settings.py (TomSelectConfig, its validation,  *)
(* as_dict, update, get_plugin_config, GLOBAL_DEFAULT_CONFIG and           *)
(* merge_configs) and the attribute builder of                             *)
(* src/mizdb_tomselect/widgets.py (MIZSelect.build_attrs).                 *)
(*                                                                         *)
(* Python values are tagged records [t |-> <type>, v |-> <payload>], so    *)
(* that None, 0, False, "" and () stay five different values, as they are  *)
(* for the `is not None` test of merge_configs.                            *)
(***************************************************************************)
EXTENDS Integers, Sequences, FiniteSets, TLC

\* ------------------------------------------------------------------ values
None == [t |-> "None"]
PyInt(n) == [t |-> "int", v |-> n]
PyStr(s) == [t |-> "str", v |-> s]
PyBool(b) == [t |-> "bool", v |-> b]
PyTuple(s) == [t |-> "tuple", v |-> s]
PyDict(m) == [t |-> "dict", v |-> m]

\* The empty keyword-argument mapping, {} .
NoKwargs == [k \in {} |-> None]

\* len() of a tuple value.
len(x) == Len(x.v)

\* -------------------------------------------------------------- bounds
\* Largest number of keyword arguments given to one TomSelectConfig(...) call.
MaxKwargs == 2
\* Longest chain merge_configs(merge_configs(... base ..., o), o) followed.
MaxMergeDepth == 2

\* ------------------------------------------------- PluginClearButton
\* title / class_name defaults of the plugin dataclass.
PluginClearButtonDefaults ==
    [title |-> PyStr("Clear Selections"), class_name |-> PyStr("clear-button")]

\* PluginClearButton(**kw): a frozen dataclass with no validate() of its own.
\* id is the identity of the new object: configs that hold the same plugin
\* object hold the same id.
PluginClearButton(kw, id) ==
    [t |-> "PluginClearButton", id |-> id,
     v |-> [f \in DOMAIN PluginClearButtonDefaults |->
              IF f \in DOMAIN kw THEN kw[f] ELSE PluginClearButtonDefaults[f]]]

\* isinstance(x, BaseConfig)
IsBaseConfig(x) == x.t \in {"PluginClearButton", "TomSelectConfig"}

\* ---------------------------------------------------- TomSelectConfig
\* The declared fields that are modelled, in declaration order: one or more
\* of every kind (str, tuple, bool, int, Optional[int], Optional[str],
\* Optional[plugin]) and every field validate() reads.
FieldSeq ==
    << "create_field", "filter_by", "exclude_by", "highlight", "load_throttle",
       "max_items", "max_options", "placeholder", "minimum_query_length",
       "plugin_clear_button" >>

FieldNames == {FieldSeq[i] : i \in 1..Len(FieldSeq)}

\* The dataclass defaults.
Defaults ==
    [create_field |-> PyStr(""),
     filter_by |-> PyTuple(<<>>),
     exclude_by |-> PyTuple(<<>>),
     highlight |-> PyBool(TRUE),
     load_throttle |-> PyInt(300),
     max_items |-> None,
     max_options |-> None,
     placeholder |-> PyStr("Select a value"),
     minimum_query_length |-> PyInt(2),
     plugin_clear_button |-> None]

\* Values of the declared type that a caller passes for each field.
Values(f) ==
    CASE f = "create_field" -> {PyStr(""), PyStr("name")}
      [] f = "filter_by" -> {PyTuple(<<>>), PyTuple(<<"a">>), PyTuple(<<"a", "b">>)}
      [] f = "exclude_by" -> {PyTuple(<<>>), PyTuple(<<"a">>), PyTuple(<<"a", "b">>)}
      [] f = "highlight" -> {PyBool(TRUE), PyBool(FALSE)}
      [] f = "load_throttle" -> {PyInt(0 - 1), PyInt(0), PyInt(300), PyInt(500)}
      [] f = "max_items" -> {None, PyInt(0), PyInt(1), PyInt(5)}
      [] f = "max_options" -> {None, PyInt(0), PyInt(1)}
      [] f = "placeholder" -> {None, PyStr(""), PyStr("Select a value")}
      [] f = "minimum_query_length" -> {PyInt(0 - 1), PyInt(0), PyInt(2)}
      [] f = "plugin_clear_button" ->
            {None, PluginClearButton(NoKwargs, "caller"),
             PluginClearButton([title |-> PyStr("X")], "caller")}

\* Keyword-argument mappings over the first i fields with at most n entries.
\* A keyword is passed to depart from the field's default: passing the
\* default itself builds the same object as leaving the keyword out.
RECURSIVE KwargsUpTo(_, _)
KwargsUpTo(i, n) ==
    IF i = 0 THEN {NoKwargs}
    ELSE LET prev == KwargsUpTo(i - 1, n)
         IN prev \cup {kw @@ (FieldSeq[i] :> val) :
                         kw \in {k \in prev : Cardinality(DOMAIN k) < n},
                         val \in Values(FieldSeq[i]) \ {Defaults[FieldSeq[i]]}}

Kwargs == KwargsUpTo(Len(FieldSeq), MaxKwargs)

\* validate() with the max_items test off by one (max_items < 0).
validate_max_items_nonnegative(self) ==
    IF len(self.filter_by) > 0 /\ len(self.filter_by) # 2
    THEN "filter_by must be either empty or a 2-tuple"
    ELSE IF len(self.exclude_by) > 0 /\ len(self.exclude_by) # 2
    THEN "exclude_by must be either empty or a 2-tuple"
    ELSE IF (len(self.filter_by) > 0 \/ len(self.exclude_by) > 0)
            /\ self.filter_by = self.exclude_by
    THEN "filter_by and exclude_by cannot refer to the same field"
    ELSE IF self.load_throttle.v < 0
    THEN "load_throttle must be positive"
    ELSE IF self.max_items # None /\ self.max_items.v < 0
    THEN "max_items must be greater than 0"
    ELSE IF self.max_options # None /\ self.max_options.v < 1
    THEN "max_options must be greater than 0"
    ELSE IF self.minimum_query_length.v < 0
    THEN "minimum_query_length must be positive"
    ELSE ""

\* validate() without the test that filter_by and exclude_by differ.
validate_without_identical_test(self) ==
    IF len(self.filter_by) > 0 /\ len(self.filter_by) # 2
    THEN "filter_by must be either empty or a 2-tuple"
    ELSE IF len(self.exclude_by) > 0 /\ len(self.exclude_by) # 2
    THEN "exclude_by must be either empty or a 2-tuple"
    ELSE IF self.load_throttle.v < 0
    THEN "load_throttle must be positive"
    ELSE IF self.max_items # None /\ self.max_items.v < 1
    THEN "max_items must be greater than 0"
    ELSE IF self.max_options # None /\ self.max_options.v < 1
    THEN "max_options must be greater than 0"
    ELSE IF self.minimum_query_length.v < 0
    THEN "minimum_query_length must be positive"
    ELSE ""

\* TomSelectConfig.validate: "" when nothing is raised, else the message of
\* the first ValidationError raised.
validate(self) ==
    IF len(self.filter_by) > 0 /\ len(self.filter_by) # 2
    THEN "filter_by must be either empty or a 2-tuple"
    ELSE IF len(self.exclude_by) > 0 /\ len(self.exclude_by) # 2
    THEN "exclude_by must be either empty or a 2-tuple"
    ELSE IF (len(self.filter_by) > 0 \/ len(self.exclude_by) > 0)
            /\ self.filter_by = self.exclude_by
    THEN "filter_by and exclude_by cannot refer to the same field"
    ELSE IF self.load_throttle.v < 0
    THEN "load_throttle must be positive"
    ELSE IF self.max_items # None /\ self.max_items.v < 1
    THEN "max_items must be greater than 0"
    ELSE IF self.max_options # None /\ self.max_options.v < 1
    THEN "max_options must be greater than 0"
    ELSE IF self.minimum_query_length.v < 0
    THEN "minimum_query_length must be positive"
    ELSE ""

\* The outcome of a call: what it returned or what it raised.
Return(val) == [status |-> "ok", value |-> val, msg |-> ""]
Raise(exc, m) == [status |-> exc, value |-> None, msg |-> m]

\* BaseConfig.__post_init__ running validate() on the new instance.
post_init(obj) ==
    LET err == validate(obj.v)
    IN IF err = "" THEN Return(obj) ELSE Raise("ValidationError", err)

\* TomSelectConfig(**kw): unset fields take the dataclass default, then
\* __post_init__ validates.  id is the identity of the new object.
TomSelectConfig(kw, id) ==
    post_init([t |-> "TomSelectConfig", id |-> id,
               v |-> [f \in FieldNames |->
                        IF f \in DOMAIN kw THEN kw[f] ELSE Defaults[f]]])

\* Python truth value of x (a dataclass instance defines neither __bool__ nor
\* __len__, so it is always true).
truthy(x) ==
    CASE x.t = "None" -> FALSE
      [] x.t = "bool" -> x.v
      [] x.t = "int" -> x.v # 0
      [] x.t = "str" -> x.v # ""
      [] x.t = "tuple" -> Len(x.v) > 0
      [] OTHER -> TRUE

\* BaseConfig.as_dict: the instance's own attribute mapping.
BaseConfig_as_dict(self) == PyDict(self.v)

\* as_dict() that copies the fields without expanding embedded configs.
as_dict_shallow(self) == PyDict(self.v)

\* TomSelectConfig.as_dict: a new mapping, embedded configs expanded.
as_dict(self) ==
    PyDict([k \in DOMAIN self.v |->
              IF IsBaseConfig(self.v[k])
              THEN BaseConfig_as_dict(self.v[k])
              ELSE self.v[k]])

\* The dataclasses declared without frozen=True: none is frozen.
frozen_nowhere(cls) == FALSE

\* @dataclass(frozen=True): __setattr__ raises FrozenInstanceError.
frozen(cls) == cls \in {"TomSelectConfig", "PluginClearButton"}

\* setattr(self, key, value): the outcome and the object afterwards.
setattr(self, key, value) ==
    IF frozen(self.t)
    THEN [out |-> Raise("FrozenInstanceError", key), self |-> self]
    ELSE [out |-> Return(None), self |-> [self EXCEPT !.v[key] = value]]

\* The keys of kwargs that come at or after position i of FieldSeq.
RECURSIVE update_from(_, _, _)
update_from(self, kwargs, i) ==
    IF i > Len(FieldSeq) THEN [out |-> Return(None), self |-> self]
    ELSE IF FieldSeq[i] \notin DOMAIN kwargs THEN update_from(self, kwargs, i + 1)
    ELSE LET r == setattr(self, FieldSeq[i], kwargs[FieldSeq[i]])
         IN IF r.out.status # "ok" THEN r
            ELSE update_from(r.self, kwargs, i + 1)

\* TomSelectConfig.update(**kwargs): setattr for every item; no return value.
update(self, kwargs) == update_from(self, kwargs, 1)

\* TomSelectConfig.verify_config_types: a warning is logged for a plugin field
\* that is no instance of its plugin class (None included); returns True.
verify_config_types(self) ==
    [out |-> Return(PyBool(TRUE)),
     warnings |->
        IF self.v.plugin_clear_button.t # "PluginClearButton"
        THEN << "PluginClearButton is not of type PluginClearButton" >>
        ELSE << >>]

\* merge_configs that tests the override's value for truth (`if val:`).
merge_configs_if_truthy(base, override, id) ==
    IF ~truthy(override) THEN Return(base)
    ELSE LET combined ==
                 [f \in FieldNames |->
                    IF truthy(override.v[f]) THEN override.v[f] ELSE base.v[f]]
         IN TomSelectConfig(combined, id)

\* merge_configs that also takes an override equal to TomSelectConfig() for
\* an absent one.
merge_configs_default_is_absent(base, override, id) ==
    IF ~truthy(override) \/ override.v = Defaults THEN Return(base)
    ELSE LET combined ==
                 [f \in FieldNames |->
                    IF override.v[f] # None THEN override.v[f] ELSE base.v[f]]
         IN TomSelectConfig(combined, id)

\* merge_configs that extends a tuple field of base by the override's tuple.
merge_configs_extending_tuples(base, override, id) ==
    IF ~truthy(override) THEN Return(base)
    ELSE LET combined ==
                 [f \in FieldNames |->
                    IF override.v[f] = None THEN base.v[f]
                    ELSE IF override.v[f].t = "tuple"
                    THEN PyTuple(base.v[f].v \o override.v[f].v)
                    ELSE override.v[f]]
         IN TomSelectConfig(combined, id)

\* merge_configs that merges two plugin configs sub-field by sub-field: a
\* sub-field the override leaves at its default is taken from base's plugin.
merge_configs_deep_plugins(base, override, id) ==
    IF ~truthy(override) THEN Return(base)
    ELSE LET deep(b, o) ==
                 [o EXCEPT !.v = [k \in DOMAIN o.v |->
                                    IF o.v[k] = PluginClearButtonDefaults[k]
                                    THEN b.v[k] ELSE o.v[k]]]
             combined ==
                 [f \in FieldNames |->
                    IF override.v[f] = None THEN base.v[f]
                    ELSE IF IsBaseConfig(override.v[f]) /\ IsBaseConfig(base.v[f])
                    THEN deep(base.v[f], override.v[f])
                    ELSE override.v[f]]
         IN TomSelectConfig(combined, id)

\* merge_configs that takes every field from the override, None included.
merge_configs_override_replaces_all(base, override, id) ==
    IF ~truthy(override) THEN Return(base)
    ELSE LET combined == [f \in FieldNames |-> override.v[f]]
         IN TomSelectConfig(combined, id)

\* merge_configs(base, override); id is the identity of a newly built config.
merge_configs(base, override, id) ==
    IF ~truthy(override) THEN Return(base)
    ELSE LET combined ==
                 [f \in FieldNames |->
                    IF override.v[f] # None THEN override.v[f] ELSE base.v[f]]
         IN TomSelectConfig(combined, id)

\* ------------------------------------------------------------------ state
VARIABLES
    PROJECT_DEFAULT_CONFIG,  \* settings.TOMSELECT["DEFAULT_CONFIG"]
    PROJECT_PLUGINS,         \* settings.TOMSELECT["PLUGINS"]
    GLOBAL_DEFAULT_CONFIG,   \* the module-level base config
    config,                  \* the per-widget override config, None until built
    config_kwargs,           \* the keyword arguments of the config's constructor call
    result,                  \* the last call: its arguments and its outcome
    widget,                  \* a MIZSelect instance, None until built
    attrs                    \* the last build_attrs call and its outcome

vars == << PROJECT_DEFAULT_CONFIG, PROJECT_PLUGINS, GLOBAL_DEFAULT_CONFIG,
           config, config_kwargs, result, widget, attrs >>

config_vars == << PROJECT_DEFAULT_CONFIG, PROJECT_PLUGINS, GLOBAL_DEFAULT_CONFIG,
                  config, config_kwargs, result >>

widget_vars == << widget, attrs >>

\* dict.get(key, None)
get(mapping, key) == IF key \in DOMAIN mapping THEN mapping[key] ELSE None

\* get_plugin_config that builds nothing from a mapping entry and falls back
\* to the default.
get_plugin_config_mapping_ignored(plugin_class, plugin_key, defaults, id) ==
    LET plugin_data == get(PROJECT_PLUGINS, plugin_key)
    IN IF plugin_data = None THEN defaults
       ELSE IF plugin_data.t = plugin_class THEN plugin_data
       ELSE defaults

\* get_plugin_config(plugin_class, plugin_key, defaults) for the clear_button
\* plugin: the settings entry as an instance, as a mapping, or the default.
\* id is the identity of the plugin config it builds from a mapping.
get_plugin_config(plugin_class, plugin_key, defaults, id) ==
    LET plugin_data == get(PROJECT_PLUGINS, plugin_key)
    IN IF plugin_data = None THEN defaults
       ELSE IF plugin_data.t = plugin_class THEN plugin_data
       ELSE IF plugin_data.t = "dict" THEN PluginClearButton(plugin_data.v, id)
       ELSE defaults

\* What get_plugin_config hands to the logger: it has no logging call on any
\* of its four paths.
get_plugin_config_warnings(plugin_class, plugin_key, defaults) == << >>

\* The project settings a deployment may carry: either a DEFAULT_CONFIG that
\* overrides one field's default or a PLUGINS entry for clear_button (an instance, a mapping of
\* its fields, or a value of neither kind).
ProjectDefaultConfigs ==
    {kw \in Kwargs : /\ Cardinality(DOMAIN kw) <= 1
                     /\ "plugin_clear_button" \notin DOMAIN kw
                     /\ \A f \in DOMAIN kw : kw[f] # Defaults[f]}

ProjectPlugins ==
    {NoKwargs} \cup
    {("clear_button" :> d) :
        d \in {PluginClearButton([title |-> PyStr("X")], "settings"),
               PyDict([class_name |-> PyStr("btn")]),
               PyStr("yes")}}

ProjectSettings ==
    {[DEFAULT_CONFIG |-> kw, PLUGINS |-> NoKwargs] : kw \in ProjectDefaultConfigs}
    \cup {[DEFAULT_CONFIG |-> NoKwargs, PLUGINS |-> p] : p \in ProjectPlugins}

\* Identities of the objects: the global config, the per-widget config; a
\* config built by merge_configs gets an identity its arguments do not have.
GlobalId == 1
ConfigId == 2
NewId(base, override) ==
    1 + (IF base.id > override.id THEN base.id ELSE override.id)

\* The record of a call.
Call(op, args, out, depth) ==
    [op |-> op, args |-> args, status |-> out.status, value |-> out.value,
     msg |-> out.msg, depth |-> depth]

NoResult == Call("none", NoKwargs, Return(None), 0)

\* Module import: the settings are read and GLOBAL_DEFAULT_CONFIG is built;
\* settings that make the construction raise leave no running program.
Init ==
    /\ \E s \in ProjectSettings :
          /\ PROJECT_DEFAULT_CONFIG = s.DEFAULT_CONFIG
          /\ PROJECT_PLUGINS = s.PLUGINS
          /\ LET out == TomSelectConfig(
                          ("plugin_clear_button" :>
                              get_plugin_config("PluginClearButton", "clear_button",
                                                None, "import"))
                          @@ s.DEFAULT_CONFIG,
                          GlobalId)
             IN /\ out.status = "ok"
                /\ GLOBAL_DEFAULT_CONFIG = out.value
    /\ config = None
    /\ config_kwargs = None
    /\ result = NoResult
    /\ widget = None
    /\ attrs = None

\* ---------------------------------------------------------------- actions
\* A form field builds its per-widget config, once: TomSelectConfig(**kw).
\* config_kwargs keeps the arguments of that call, also when it raised.
Construct ==
    /\ config = None
    /\ config_kwargs = None
    /\ \E kw \in Kwargs :
          LET out == TomSelectConfig(kw, ConfigId)
          IN /\ result' = Call("TomSelectConfig", [kwargs |-> kw], out, 0)
             /\ IF out.status = "ok"
                THEN config' = out.value
                ELSE UNCHANGED config
             /\ config_kwargs' = kw
    /\ UNCHANGED << PROJECT_DEFAULT_CONFIG, PROJECT_PLUGINS, GLOBAL_DEFAULT_CONFIG >>
    /\ UNCHANGED widget_vars

\* The id a merge of base and override gives to the config it builds.
MergeId(base, override) ==
    IF override = None THEN base.id + 1 ELSE NewId(base, override)

\* The widget resolves its config: merge_configs(GLOBAL_DEFAULT_CONFIG, config).
Merge ==
    /\ result' = Call("merge_configs",
                      [base |-> GLOBAL_DEFAULT_CONFIG, override |-> config],
                      merge_configs(GLOBAL_DEFAULT_CONFIG, config,
                                    MergeId(GLOBAL_DEFAULT_CONFIG, config)),
                      1)
    /\ UNCHANGED << PROJECT_DEFAULT_CONFIG, PROJECT_PLUGINS, GLOBAL_DEFAULT_CONFIG,
                    config, config_kwargs >>
    /\ UNCHANGED widget_vars

\* The merged config is merged with the same override again:
\* merge_configs(merge_configs(base, config), config).
Remerge ==
    /\ result.op = "merge_configs"
    /\ result.status = "ok"
    /\ result.depth < MaxMergeDepth
    /\ result' = Call("merge_configs",
                      [base |-> result.value, override |-> config],
                      merge_configs(result.value, config,
                                    MergeId(result.value, config)),
                      result.depth + 1)
    /\ UNCHANGED << PROJECT_DEFAULT_CONFIG, PROJECT_PLUGINS, GLOBAL_DEFAULT_CONFIG,
                    config, config_kwargs >>
    /\ UNCHANGED widget_vars

\* The configs a caller holds: the global one, the per-widget one, and the
\* one the last call returned.
Held ==
    {[name |-> "GLOBAL_DEFAULT_CONFIG", obj |-> GLOBAL_DEFAULT_CONFIG]}
    \cup (IF config = None THEN {} ELSE {[name |-> "config", obj |-> config]})
    \cup (IF result.op = "merge_configs" /\ result.status = "ok"
          THEN {[name |-> "merged", obj |-> result.value]} ELSE {})

\* as_dict() of a held config.
AsDict ==
    /\ \E h \in Held :
          result' = Call("as_dict", [self |-> h.obj, name |-> h.name],
                         Return(as_dict(h.obj)), 0)
    /\ UNCHANGED << PROJECT_DEFAULT_CONFIG, PROJECT_PLUGINS, GLOBAL_DEFAULT_CONFIG,
                    config, config_kwargs >>
    /\ UNCHANGED widget_vars

\* The keyword arguments update() is called with.
UpdateKwargs ==
    {NoKwargs,
     ("load_throttle" :> PyInt(0)),
     ("max_items" :> PyInt(5)) @@ ("highlight" :> PyBool(FALSE))}

\* update(**kw) on the global or the per-widget config.
Update ==
    /\ \E h \in {x \in Held : x.name # "merged"}, kw \in UpdateKwargs :
          LET r == update(h.obj, kw)
          IN /\ result' = Call("update",
                               [self |-> h.obj, name |-> h.name, kwargs |-> kw,
                                after |-> r.self],
                               r.out, 0)
             /\ IF h.name = "config"
                THEN config' = r.self /\ UNCHANGED GLOBAL_DEFAULT_CONFIG
                ELSE GLOBAL_DEFAULT_CONFIG' = r.self /\ UNCHANGED config
    /\ UNCHANGED << PROJECT_DEFAULT_CONFIG, PROJECT_PLUGINS, config_kwargs >>
    /\ UNCHANGED widget_vars

\* The record of a call that may log: the warnings it handed to the logger.
CallLogging(op, args, out, warnings) ==
    [op |-> op, args |-> args, status |-> out.status, value |-> out.value,
     msg |-> out.msg, depth |-> 0, warnings |-> warnings]

\* verify_config_types() of a held config.
VerifyConfigTypes ==
    /\ \E h \in Held :
          LET r == verify_config_types(h.obj)
          IN result' = CallLogging("verify_config_types",
                                   [self |-> h.obj, name |-> h.name],
                                   r.out, r.warnings)
    /\ UNCHANGED << PROJECT_DEFAULT_CONFIG, PROJECT_PLUGINS, GLOBAL_DEFAULT_CONFIG,
                    config, config_kwargs >>
    /\ UNCHANGED widget_vars

\* The defaults get_plugin_config is called with.
PluginDefaults == {None, PluginClearButton(NoKwargs, "default")}

\* get_plugin_config(PluginClearButton, "clear_button", defaults) against the
\* project settings.
GetPluginConfig ==
    /\ \E defaults \in PluginDefaults :
          result' = CallLogging(
                        "get_plugin_config",
                        [plugin_class |-> "PluginClearButton",
                         plugin_key |-> "clear_button", defaults |-> defaults],
                        Return(get_plugin_config("PluginClearButton", "clear_button",
                                                 defaults, "call")),
                        get_plugin_config_warnings("PluginClearButton",
                                                   "clear_button", defaults))
    /\ UNCHANGED << PROJECT_DEFAULT_CONFIG, PROJECT_PLUGINS, GLOBAL_DEFAULT_CONFIG,
                    config, config_kwargs >>
    /\ UNCHANGED widget_vars

Next ==
    \/ Construct
    \/ Merge
    \/ Remerge
    \/ AsDict
    \/ Update
    \/ VerifyConfigTypes
    \/ GetPluginConfig

Spec == Init /\ [][Next]_vars

\* ------------------------------------------- writes into as_dict() output
\* The entry of TomSelectConfig.as_dict() under key k is v.as_dict() when the
\* field holds a BaseConfig, and BaseConfig.as_dict returns self.__dict__:
\* that entry is the plugin object's own attribute mapping, not a copy.
IsLiveEntry(self, k) == IsBaseConfig(self.v[k])

\* obj after plugin object p got the attribute mapping m: every field that
\* holds that same object (same identity) shows the new mapping.
WithPluginDict(obj, p, m) ==
    IF obj = None THEN None
    ELSE [obj EXCEPT !.v = [k \in DOMAIN obj.v |->
                              IF IsBaseConfig(obj.v[k]) /\ obj.v[k].id = p.id
                              THEN [t |-> p.t, id |-> p.id, v |-> m]
                              ELSE obj.v[k]]]

\* The settings entries after plugin object p got the attribute mapping m.
PluginsWithPluginDict(plugins, p, m) ==
    [key \in DOMAIN plugins |->
        IF IsBaseConfig(plugins[key]) /\ plugins[key].id = p.id
        THEN [t |-> p.t, id |-> p.id, v |-> m]
        ELSE plugins[key]]

\* The values a caller writes into a mapping.
WrittenValues == {PyStr("Z")}

\* d = cfg.as_dict(); d[k] = val.  The outer mapping is built new by the
\* comprehension in TomSelectConfig.as_dict, so only d changes.
SetItem ==
    /\ result.op = "as_dict"
    /\ \E k \in {"placeholder", "plugin_clear_button"}, val \in WrittenValues :
          result' = Call("setitem",
                         [self |-> result.args.self, name |-> result.args.name,
                          path |-> << k >>, value |-> val,
                          after |-> result.args.self],
                         Return(PyDict([result.value.v EXCEPT ![k] = val])), 0)
    /\ UNCHANGED << PROJECT_DEFAULT_CONFIG, PROJECT_PLUGINS, GLOBAL_DEFAULT_CONFIG,
                    config, config_kwargs >>
    /\ UNCHANGED widget_vars

\* d = cfg.as_dict(); d[k][sub] = val for an embedded plugin config under k:
\* d[k] is the plugin object's __dict__, and a frozen dataclass guards only
\* attribute assignment, so the write lands in the plugin object and shows in
\* every config and settings entry that holds it.
SetNestedItem ==
    /\ result.op = "as_dict"
    /\ \E k \in {f \in FieldNames : IsLiveEntry(result.args.self, f)} :
          LET p == result.args.self.v[k]
          IN \E sub \in DOMAIN p.v, val \in WrittenValues :
                LET m == [p.v EXCEPT ![sub] = val]
                IN /\ result' =
                        Call("setitem",
                             [self |-> result.args.self, name |-> result.args.name,
                              path |-> << k, sub >>, value |-> val,
                              after |-> WithPluginDict(result.args.self, p, m)],
                             Return(PyDict([result.value.v EXCEPT ![k] = PyDict(m)])),
                             0)
                   /\ GLOBAL_DEFAULT_CONFIG' =
                        WithPluginDict(GLOBAL_DEFAULT_CONFIG, p, m)
                   /\ config' = WithPluginDict(config, p, m)
                   /\ PROJECT_PLUGINS' = PluginsWithPluginDict(PROJECT_PLUGINS, p, m)
    /\ UNCHANGED << PROJECT_DEFAULT_CONFIG, config_kwargs >>
    /\ UNCHANGED widget_vars

\* The config calls together with a caller that writes into the mappings
\* as_dict() handed out.
NextAlias ==
    \/ Construct
    \/ Merge
    \/ Remerge
    \/ AsDict
    \/ Update
    \/ VerifyConfigTypes
    \/ GetPluginConfig
    \/ SetItem
    \/ SetNestedItem

SpecAlias == Init /\ [][NextAlias]_vars

\* ------------------------------------------- mizdb_tomselect: MIZSelect
\* The URL patterns of the project: django.urls.reverse(name) gives the path
\* of a known name and raises NoReverseMatch for any other.
UrlPatterns ==
    [autocomplete |-> "/autocomplete/", add_page |-> "/add/",
     changelist_page |-> "/list/"]

reverse(viewname) ==
    IF viewname.v \in DOMAIN UrlPatterns
    THEN Return(PyStr(UrlPatterns[viewname.v]))
    ELSE Raise("NoReverseMatch", viewname.v)

\* MIZSelect.__init__ with its keyword defaults.
MIZSelect(url, changelist_url, add_url, multiple) ==
    [t |-> "MIZSelect",
     v |-> [model |-> [app_label |-> "app", model_name |-> "ausgabe"],
            url |-> url,
            search_lookup |-> PyStr("name__icontains"),
            value_field |-> PyStr("id"),
            label_field |-> PyStr("name"),
            create_field |-> PyStr(""),
            multiple |-> multiple,
            changelist_url |-> changelist_url,
            add_url |-> add_url,
            filter_by |-> PyTuple(<<>>)]]

\* get_url: reverse(self.url)
get_url(self) == reverse(self.v.url)

\* get_add_url: the reversed add_url, or nothing (None) when it is empty.
get_add_url(self) ==
    IF truthy(self.v.add_url) THEN reverse(self.v.add_url) ELSE Return(None)

\* get_changelist_url: likewise for changelist_url.
get_changelist_url(self) ==
    IF truthy(self.v.changelist_url) THEN reverse(self.v.changelist_url)
    ELSE Return(None)

\* Python's `a or b`.
py_or(a, b) == IF truthy(a) THEN a ELSE b

\* json.dumps(list(t)) of a tuple of strings.
json_dumps_list(t) ==
    CASE t.v = <<>> -> PyStr("[]")
      [] Len(t.v) = 1 -> PyStr("[\"" \o t.v[1] \o "\"]")
      [] Len(t.v) = 2 -> PyStr("[\"" \o t.v[1] \o "\", \"" \o t.v[2] \o "\"]")

\* forms.Widget.build_attrs: {**base_attrs, **(extra_attrs or {})}
Widget_build_attrs(base_attrs, extra_attrs) ==
    IF truthy(extra_attrs) THEN extra_attrs.v @@ base_attrs.v ELSE base_attrs.v

\* build_attrs that passes the hooks' values on as they are (no `or ""`).
build_attrs_without_or(self, base_attrs, extra_attrs) ==
    LET super == Widget_build_attrs(base_attrs, extra_attrs)
        u == get_url(self)
        c == get_changelist_url(self)
        a == get_add_url(self)
    IN IF u.status # "ok" THEN u
       ELSE IF c.status # "ok" THEN c
       ELSE IF a.status # "ok" THEN a
       ELSE Return(PyDict(
              ("is-tomselect" :> PyBool(TRUE))
              @@ ("is-multiple" :> self.v.multiple)
              @@ ("data-autocomplete-url" :> u.value)
              @@ ("data-model" :>
                     PyStr(self.v.model.app_label \o "." \o self.v.model.model_name))
              @@ ("data-search-lookup" :> self.v.search_lookup)
              @@ ("data-value-field" :> self.v.value_field)
              @@ ("data-label-field" :> self.v.label_field)
              @@ ("data-create-field" :> self.v.create_field)
              @@ ("data-changelist-url" :> c.value)
              @@ ("data-add-url" :> a.value)
              @@ ("data-filter-by" :> json_dumps_list(self.v.filter_by))
              @@ super))

\* MIZSelect.build_attrs: the inherited attributes updated with the widget's
\* data attributes; an exception of a hook leaves the call.
build_attrs(self, base_attrs, extra_attrs) ==
    LET super == Widget_build_attrs(base_attrs, extra_attrs)
        u == get_url(self)
        c == get_changelist_url(self)
        a == get_add_url(self)
    IN IF u.status # "ok" THEN u
       ELSE IF c.status # "ok" THEN c
       ELSE IF a.status # "ok" THEN a
       ELSE Return(PyDict(
              ("is-tomselect" :> PyBool(TRUE))
              @@ ("is-multiple" :> self.v.multiple)
              @@ ("data-autocomplete-url" :> u.value)
              @@ ("data-model" :>
                     PyStr(self.v.model.app_label \o "." \o self.v.model.model_name))
              @@ ("data-search-lookup" :> self.v.search_lookup)
              @@ ("data-value-field" :> self.v.value_field)
              @@ ("data-label-field" :> self.v.label_field)
              @@ ("data-create-field" :> self.v.create_field)
              @@ ("data-changelist-url" :> py_or(c.value, PyStr("")))
              @@ ("data-add-url" :> py_or(a.value, PyStr("")))
              @@ ("data-filter-by" :> json_dumps_list(self.v.filter_by))
              @@ super))

\* URL names a widget is built with.
UrlNames == {PyStr("autocomplete"), PyStr("missing")}
ChangelistUrlNames == {PyStr(""), PyStr("changelist_page"), PyStr("missing")}
AddUrlNames == {PyStr(""), PyStr("add_page"), PyStr("missing")}

\* Attribute mappings handed to build_attrs.
BaseAttrs ==
    {PyDict(NoKwargs),
     PyDict(("id" :> PyStr("id_field"))),
     PyDict(("data-add-url" :> None))}
ExtraAttrs ==
    {None,
     PyDict(("class" :> PyStr("wide")) @@ ("data-changelist-url" :> None))}

\* A form builds its MIZSelect widget.
MIZSelectInit ==
    /\ widget = None
    /\ \E url \in UrlNames, cl \in ChangelistUrlNames, add \in AddUrlNames,
          multiple \in {PyBool(FALSE), PyBool(TRUE)} :
          widget' = MIZSelect(url, cl, add, multiple)
    /\ UNCHANGED attrs
    /\ UNCHANGED config_vars

\* The widget is rendered: build_attrs(base_attrs, extra_attrs).
BuildAttrs ==
    /\ widget # None
    /\ \E base_attrs \in BaseAttrs, extra_attrs \in ExtraAttrs :
          attrs' = Call("build_attrs",
                        [base_attrs |-> base_attrs, extra_attrs |-> extra_attrs],
                        build_attrs(widget, base_attrs, extra_attrs), 0)
    /\ UNCHANGED widget
    /\ UNCHANGED config_vars

NextMIZ == MIZSelectInit \/ BuildAttrs

SpecMIZ == Init /\ [][NextMIZ]_vars

\* ----------------------------------------------------------- the claims
\* The value TomSelectConfig(**kw) gives field f.
Arg(kw, f) == IF f \in DOMAIN kw THEN kw[f] ELSE Defaults[f]

\* The construction invariants, as the data model states them.
RuleShapeOk(rule) == Len(rule.v) = 0 \/ Len(rule.v) = 2
NumericOk(lo, x) == x # None /\ x.v >= lo
OptionalOk(lo, x) == x = None \/ x.v >= lo
InvariantsHold(fields) ==
    /\ RuleShapeOk(fields.filter_by)
    /\ RuleShapeOk(fields.exclude_by)
    /\ ~(/\ Len(fields.filter_by.v) > 0
         /\ Len(fields.exclude_by.v) > 0
         /\ fields.filter_by = fields.exclude_by)
    /\ NumericOk(0, fields.load_throttle)
    /\ NumericOk(0, fields.minimum_query_length)
    /\ OptionalOk(1, fields.max_items)
    /\ OptionalOk(1, fields.max_options)

IsMerge == result.op = "merge_configs"
IsOverrideMerge == IsMerge /\ result.args.override # None

\* C1: merging base with an override built from the fields S only gives, for
\* every field, the override's value when the field is in S and base's value
\* when it is not.  (A field supplied as None counts as not supplied: None is
\* the unset value.)
C1_MergeTakesSuppliedFieldsOnly ==
    (IsOverrideMerge /\ result.status = "ok") =>
        \A f \in FieldNames :
            result.value.v[f] =
                IF f \in DOMAIN config_kwargs /\ config_kwargs[f] # None
                THEN result.args.override.v[f]
                ELSE result.args.base.v[f]

\* C2: a base with filter_by = R and no exclude_by, merged with an override
\* built from exclude_by = R alone, raises a validation error.
C2_MergeRejectsIdenticalRule ==
    (/\ IsOverrideMerge
     /\ Len(result.args.base.v.filter_by.v) = 2
     /\ Len(result.args.base.v.exclude_by.v) = 0
     /\ DOMAIN config_kwargs = {"exclude_by"}
     /\ config_kwargs.exclude_by = result.args.base.v.filter_by)
    => (result.status = "ValidationError" /\ result.value = None)

\* C3: an override's explicit 0, False or "" wins over base's value.
FalsyValues == {PyInt(0), PyBool(FALSE), PyStr("")}
C3_ExplicitFalsyWins ==
    IsOverrideMerge =>
        /\ result.status = "ok"
        /\ \A f \in FieldNames :
              result.args.override.v[f] \in FalsyValues
                  => result.value.v[f] = result.args.override.v[f]

C3_Witness ==
    /\ IsOverrideMerge
    /\ result.args.base.v.load_throttle = PyInt(500)
    /\ result.args.override.v.load_throttle = PyInt(0)
    /\ result.status = "ok"
    /\ result.value.v.load_throttle = PyInt(0)

\* C4: merge_configs(base, None) returns base itself; a non-None override,
\* also one with every field at its default, is merged: the result is a new
\* config that carries the override's non-None values.
C4_MergeIdentity ==
    IsMerge =>
        /\ result.args.override = None
              => (result.status = "ok" /\ result.value = result.args.base)
        /\ (result.args.override # None /\ result.status = "ok")
              => /\ result.value.id \notin {result.args.base.id,
                                           result.args.override.id}
                 /\ \A f \in FieldNames :
                       result.args.override.v[f] # None
                           => result.value.v[f] = result.args.override.v[f]

C4_Witness ==
    /\ IsMerge
    /\ result.args.override = None
    /\ result.args.base.v # Defaults
    /\ result.value = result.args.base

\* C5: merging the merged config with the same override again succeeds and
\* changes no field.
C5_MergeIdempotent ==
    (IsMerge /\ result.depth >= 2) =>
        /\ result.status = "ok"
        /\ result.value.v = result.args.base.v

C5_Witness ==
    /\ IsOverrideMerge
    /\ result.depth >= 2
    /\ result.status = "ok"
    /\ result.args.base.v # GLOBAL_DEFAULT_CONFIG.v
    /\ result.args.base.v # result.args.override.v
    /\ result.value.v = result.args.base.v

\* C6: TomSelectConfig(**kw) succeeds exactly when the rule shapes, the
\* filter/exclude difference and the numeric thresholds hold, and raises a
\* validation error otherwise.
C6_ConstructionValidatesExactly ==
    result.op = "TomSelectConfig" =>
        LET fields == [f \in FieldNames |-> Arg(result.args.kwargs, f)]
        IN IF InvariantsHold(fields)
           THEN result.status = "ok" /\ result.value.v = fields
           ELSE result.status = "ValidationError" /\ result.value = None

C6_Witness ==
    /\ result.op = "TomSelectConfig"
    /\ "max_items" \in DOMAIN result.args.kwargs
    /\ result.args.kwargs.max_items = PyInt(0)
    /\ result.status = "ValidationError"

\* C7: a config returned by merge_configs for a non-None override satisfies
\* every construction invariant; otherwise the call raised.
C7_MergedConfigIsValid ==
    IsOverrideMerge =>
        /\ result.status \in {"ok", "ValidationError"}
        /\ result.status = "ok" => InvariantsHold(result.value.v)
        /\ result.status # "ok" => result.value = None

C7_Witness ==
    /\ IsOverrideMerge
    /\ result.status = "ok"
    /\ result.args.base.v.max_items = PyInt(1)
    /\ result.value.v.max_items = PyInt(1)
    /\ result.value.v.exclude_by = PyTuple(<<"a", "b">>)

\* C8: as_dict() of a constructed config has one entry per declared field;
\* a supplied scalar is reported unchanged and a supplied plugin config by
\* the mapping of the plugin's own fields.
C8_AsDictRoundTrip ==
    (result.op = "as_dict" /\ result.args.name = "config") =>
        /\ result.value.t = "dict"
        /\ DOMAIN result.value.v = FieldNames
        /\ \A f \in DOMAIN config_kwargs :
              result.value.v[f] =
                  IF config_kwargs[f].t = "PluginClearButton"
                  THEN PyDict(config_kwargs[f].v)
                  ELSE config_kwargs[f]

C8_Witness ==
    /\ result.op = "as_dict"
    /\ result.args.name = "config"
    /\ "plugin_clear_button" \in DOMAIN config_kwargs
    /\ config_kwargs.plugin_clear_button # None
    /\ result.value.v.plugin_clear_button.v.title = PyStr("X")

\* C9: update(**kw) with named field values returns the same instance with
\* exactly the named fields set and the others unchanged, and does not raise.
C9_UpdateSetsNamedFields ==
    (result.op = "update" /\ result.args.kwargs # NoKwargs) =>
        /\ result.status = "ok"
        /\ result.value = result.args.self
        /\ \A f \in FieldNames :
              result.args.after.v[f] =
                  IF f \in DOMAIN result.args.kwargs
                  THEN result.args.kwargs[f]
                  ELSE result.args.self.v[f]

\* C10: the mapping build_attrs returns always has data-add-url and
\* data-changelist-url: "" when the widget's URL name is empty and the
\* resolved URL otherwise, never a missing key and never None.
ExpectedUrl(name) == IF name.v = "" THEN PyStr("") ELSE PyStr(UrlPatterns[name.v])
C10_UrlAttrsAlwaysPresent ==
    (attrs # None /\ attrs.status = "ok") =>
        /\ {"data-add-url", "data-changelist-url"} \subseteq DOMAIN attrs.value.v
        /\ attrs.value.v["data-add-url"] = ExpectedUrl(widget.v.add_url)
        /\ attrs.value.v["data-changelist-url"] = ExpectedUrl(widget.v.changelist_url)
        /\ attrs.value.v["data-add-url"] # None
        /\ attrs.value.v["data-changelist-url"] # None

C10_Witness ==
    /\ attrs # None
    /\ attrs.status = "ok"
    /\ widget.v.add_url = PyStr("")
    /\ widget.v.changelist_url = PyStr("changelist_page")
    /\ attrs.args.base_attrs = PyDict(("data-add-url" :> None))
    /\ attrs.value.v["data-add-url"] = PyStr("")
    /\ attrs.value.v["data-changelist-url"] = PyStr("/list/")

\* C11: no call of merge_configs (with GLOBAL_DEFAULT_CONFIG as base), as_dict,
\* update, verify_config_types or get_plugin_config, returning or raising,
\* changes a field of GLOBAL_DEFAULT_CONFIG or of its embedded plugin config.
C11_GlobalConfigNeverChanges ==
    [][GLOBAL_DEFAULT_CONFIG' = GLOBAL_DEFAULT_CONFIG]_vars

C11_Witness ==
    /\ result.op = "update"
    /\ result.args.name = "GLOBAL_DEFAULT_CONFIG"
    /\ result.args.kwargs # NoKwargs
    /\ result.status = "FrozenInstanceError"
    /\ GLOBAL_DEFAULT_CONFIG.v.plugin_clear_button # None
    /\ GLOBAL_DEFAULT_CONFIG.v.load_throttle = PyInt(300)

\* The four kinds of settings entry get_plugin_config meets.
IsGetPluginConfig == result.op = "get_plugin_config"
SettingsEntry == get(PROJECT_PLUGINS, result.args.plugin_key)
EntryMissing == SettingsEntry = None
EntryIsInstance == SettingsEntry.t = result.args.plugin_class
EntryIsMapping == SettingsEntry.t = "dict"
EntryIsOther == ~EntryMissing /\ ~EntryIsInstance /\ ~EntryIsMapping

\* What get_plugin_config returns for a missing entry, an instance and a
\* mapping: the default, the instance, a plugin config with the mapping's
\* fields and the class defaults for the others.
PluginConfigResolved ==
    /\ result.status = "ok"
    /\ EntryMissing => result.value = result.args.defaults
    /\ EntryIsInstance => result.value = SettingsEntry
    /\ EntryIsMapping =>
          /\ result.value.t = result.args.plugin_class
          /\ \A f \in DOMAIN PluginClearButtonDefaults :
                result.value.v[f] =
                    IF f \in DOMAIN SettingsEntry.v
                    THEN SettingsEntry.v[f]
                    ELSE PluginClearButtonDefaults[f]

\* C12 (as claimed): for an entry that is neither a mapping nor an instance
\* of the plugin class, get_plugin_config logs a warning and returns the
\* default; the other three kinds of entry resolve as above.
C12_FallbackLogsWarning ==
    IsGetPluginConfig =>
        /\ PluginConfigResolved
        /\ EntryIsOther =>
              /\ result.value = result.args.defaults
              /\ Len(result.warnings) > 0

\* C12 (amended): for such an entry get_plugin_config returns the default
\* without raising and without logging anything; the other three kinds of
\* entry resolve as above.
C12_FallbackIsSilent ==
    IsGetPluginConfig =>
        /\ PluginConfigResolved
        /\ EntryIsOther =>
              /\ result.value = result.args.defaults
              /\ result.warnings = << >>

C12_Witness ==
    /\ IsGetPluginConfig
    /\ EntryIsOther
    /\ result.args.defaults # None
    /\ result.status = "ok"
    /\ result.value = result.args.defaults

\* ------------------------------------------------------------------ C13
\* C13: merge is field-by-field and never deep.  When the override carries a
\* plugin config, the merged config's plugin field is the override's plugin
\* object itself: every sub-field has the override's value, whatever base's
\* plugin config of that kind holds.
C13_PluginFieldReplacedWhole ==
    (/\ IsOverrideMerge
     /\ result.status = "ok"
     /\ result.args.override.v.plugin_clear_button # None)
    => /\ result.value.v.plugin_clear_button
            = result.args.override.v.plugin_clear_button
       /\ \A k \in DOMAIN PluginClearButtonDefaults :
             result.value.v.plugin_clear_button.v[k]
                = result.args.override.v.plugin_clear_button.v[k]

\* Base and override both carry a clear-button plugin, with different
\* sub-field values, and the merge returned the override's.
C13_Witness ==
    /\ IsOverrideMerge
    /\ result.status = "ok"
    /\ result.args.base.v.plugin_clear_button # None
    /\ result.args.override.v.plugin_clear_button # None
    /\ result.args.base.v.plugin_clear_button.v.class_name = PyStr("btn")
    /\ result.args.override.v.plugin_clear_button.v.title = PyStr("X")
    /\ result.value.v.plugin_clear_button.v
          = [title |-> PyStr("X"), class_name |-> PyStr("clear-button")]

\* ------------------------------------------------------------------ C14
IsSetItem == result.op = "setitem"

\* C14: the mapping returned by as_dict() is independent of the config it
\* came from.  After a write into the returned mapping, at the top level or
\* inside a nested plugin mapping, the config as_dict() was called on has the
\* fields it had before, its embedded plugin config included, and so have the
\* global and the per-widget config.
C14_AsDictMappingIndependent ==
    IsSetItem =>
        /\ result.args.after = result.args.self
        /\ (result.args.name = "GLOBAL_DEFAULT_CONFIG"
                => GLOBAL_DEFAULT_CONFIG = result.args.self)
        /\ (result.args.name = "config" => config = result.args.self)

\* ------------------------------------------------------------------ C15
\* C15: a plugin enabled in the base config is never disabled by an override.
\* Whenever merge_configs returns for a base whose clear-button plugin is
\* present, the result has that plugin present, and an override that is
\* absent or carries no such plugin leaves base's plugin object in place.  The
\* base of a merge is the global config or the result of the merge before it,
\* so the plugin stays enabled along the whole chain.
C15_EnabledPluginStaysEnabled ==
    (/\ IsMerge
     /\ result.status = "ok"
     /\ result.args.base.v.plugin_clear_button # None)
    => /\ result.value.v.plugin_clear_button # None
       /\ ((\/ result.args.override = None
            \/ result.args.override.v.plugin_clear_button = None)
           => result.value.v.plugin_clear_button
                 = result.args.base.v.plugin_clear_button)

\* The second merge of a chain: the base carries the plugin the settings
\* enabled, the override changes another field and names no plugin, and the
\* result still carries the settings' plugin.
C15_Witness ==
    /\ IsOverrideMerge
    /\ result.status = "ok"
    /\ result.depth = 2
    /\ result.args.base.v.plugin_clear_button # None
    /\ result.args.override.v.plugin_clear_button = None
    /\ result.args.override.v.highlight = PyBool(FALSE)
    /\ result.value.v.plugin_clear_button = GLOBAL_DEFAULT_CONFIG.v.plugin_clear_button
    /\ result.value.v.plugin_clear_button.id = "settings"

====
